---------------------------- MODULE Spec2Model ----------------------------
(***************************************************************************)
(* PKCS#11 test provisioning (.builder/actions/pkcs11_test_setup.py).      *)
(*                                                                         *)
(* Text is modelled as a sequence of one-character strings, so that the    *)
(* regular expressions and substring tests of the source are computed      *)
(* character by character.  Python's None is modelled by the empty         *)
(* sequence: every regex group the source stores is at least one           *)
(* character long, so the two never collide.                               *)
(***************************************************************************)
EXTENDS Integers, Sequences, FiniteSets, TLC

(***************************************************************************)
(* Bounds of the model.                                                    *)
(***************************************************************************)
\* longest --show-slots report, in lines, given to the slot parser alone
MaxLines == 6
\* longest --show-slots report, in lines, inside a whole provisioning run
MaxRunLines == 3
\* longest --version output, in characters, given to the version parser alone
MaxVersionLen == 6
\* longest report, in lines, of slots that hold Token info blocks only
MaxTokenLines == 6

(***************************************************************************)
(* String literals of the source.                                          *)
(***************************************************************************)
None == << >>

TOKEN_INFO == <<"T", "o", "k", "e", "n", " ", "i", "n", "f", "o">>
USAGE == <<"U", "s", "a", "g", "e", ":", " ", "s", "o", "f", "t", "h", "s", "m", "2", "-", "u", "t", "i", "l">>
SLOT_PREFIX == <<"S", "l", "o", "t", " ">>
INITIALIZED == <<"I", "n", "i", "t", "i", "a", "l", "i", "z", "e", "d", ":">>
YES == <<"y", "e", "s">>
LINUX == <<"l", "i", "n", "u", "x">>
DARWIN == <<"d", "a", "r", "w", "i", "n">>
WIN32 == <<"w", "i", "n", "3", "2">>
ARM == <<"a", "r", "m">>

Digits == {"0", "1", "2", "3", "4", "5", "6", "7", "8", "9"}

(***************************************************************************)
(* Text primitives: str.startswith, the `in` substring test, and the       *)
(* greedy character-class runs of the regular expressions.                 *)
(***************************************************************************)
StartsWithAt(s, i, p) ==
    /\ i + Len(p) - 1 <= Len(s)
    /\ \A k \in 1..Len(p) : s[i + k - 1] = p[k]

Contains(s, p) ==
    \E i \in 1..(Len(s) - Len(p) + 1) : StartsWithAt(s, i, p)

\* the first index >= i of s that does not hold a character of class cls
\* (Len(s) + 1 when the run reaches the end): where a greedy cls* stops
RECURSIVE RunEnd(_, _, _)
RunEnd(s, i, cls) ==
    IF i > Len(s) THEN Len(s) + 1
    ELSE IF s[i] \notin cls THEN i
    ELSE RunEnd(s, i + 1, cls)

RECURSIVE DigitsToInt(_)
\* int(text) for a non-empty text of decimal digits
DigitsToInt(ds) ==
    IF ds = << >> THEN 0
    ELSE LET d == CHOOSE n \in 0..9 :
                      ds[Len(ds)] = <<"0", "1", "2", "3", "4", "5", "6", "7", "8", "9">>[n + 1]
         IN  DigitsToInt(SubSeq(ds, 1, Len(ds) - 1)) * 10 + d

\* the first index >= i of text that holds a line break (Len(text) + 1 if none)
RECURSIVE LineEnd(_, _)
LineEnd(text, i) ==
    IF i > Len(text) THEN Len(text) + 1
    ELSE IF text[i] = "\n" THEN i
    ELSE LineEnd(text, i + 1)

RECURSIVE SplitFrom(_, _)
\* str.splitlines() from index i on: lines end at "\n" (the only line break
\* the modelled texts hold), and a final line break opens no empty last line
SplitFrom(text, i) ==
    IF i > Len(text) THEN << >>
    ELSE LET e == LineEnd(text, i)
         IN  <<SubSeq(text, i, e - 1)>> \o SplitFrom(text, e + 1)

SplitLines(text) == SplitFrom(text, 1)

RECURSIVE JoinLines(_)
\* the text a command prints for the given lines: each line ends in "\n"
JoinLines(lines) ==
    IF lines = << >> THEN << >>
    ELSE Head(lines) \o <<"\n">> \o JoinLines(Tail(lines))

Ret(v) == [raised |-> FALSE, value |-> v]
Raise == [raised |-> TRUE, value |-> None]

(***************************************************************************)
(* _exec_softhsm2_util: check=True makes the shell raise on a nonzero exit *)
(* code, and output holding the usage banner is raised as an error too.    *)
(* A result is [returncode, output].                                       *)
(***************************************************************************)
\* (mutant) only the exit code decides
ExecSofthsm2UtilExitCodeOnly(result) ==
    IF result.returncode # 0 THEN Raise ELSE Ret(result.output)

ExecSofthsm2Util(result) ==
    IF result.returncode # 0 THEN Raise
    ELSE IF Contains(result.output, USAGE) THEN Raise
    ELSE Ret(result.output)

(***************************************************************************)
(* _find_sofhsm2_token_slot                                                *)
(***************************************************************************)
\* re.match(r"Slot ([0-9]+)", line): group 1, or None
SlotLineMatch(line) ==
    IF /\ StartsWithAt(line, 1, SLOT_PREFIX)
       /\ Len(line) > Len(SLOT_PREFIX)
       /\ line[Len(SLOT_PREFIX) + 1] \in Digits
    THEN SubSeq(line, Len(SLOT_PREFIX) + 1,
                RunEnd(line, Len(SLOT_PREFIX) + 1, Digits) - 1)
    ELSE None

\* re.match(r"    ([^ ].*)", line): group 1, or None
InfoBlockMatch(line) ==
    IF /\ StartsWithAt(line, 1, <<" ", " ", " ", " ">>)
       /\ Len(line) > Len(<<" ", " ", " ", " ">>)
       /\ line[Len(<<" ", " ", " ", " ">>) + 1] # " "
    THEN SubSeq(line, Len(<<" ", " ", " ", " ">>) + 1, Len(line))
    ELSE None

\* re.match(r" *Initialized: *yes", line) is not None
InitializedYesMatch(line) ==
    LET a == RunEnd(line, 1, {" "})
        b == RunEnd(line, a + Len(INITIALIZED), {" "})
    IN  /\ StartsWithAt(line, a, INITIALIZED)
        /\ StartsWithAt(line, b, YES)

\* the scanner's return on a matching line
ScanReturn(current_slot) == Ret(current_slot)

\* (mutant) any active block passes for the token block
InAnyBlock(current_info_block) == TRUE

\* the test that the active block is the token block
InTokenBlock(current_info_block) == Contains(current_info_block, TOKEN_INFO)

\* (mutant) the scan that matched nothing returns None instead of raising
ScanExhaustedReturnsNone == Ret(None)

\* line 172: no line matched
ScanExhausted == Raise

\* (mutant) a "Slot <ID>" line leaves the active block as it is
BlockAfterSlotLineKept(current_info_block) == current_info_block

\* the active block after a "Slot <ID>" line
BlockAfterSlotLine(current_info_block) == None

RECURSIVE ScanLinesLastMatch(_, _, _, _)
\* (mutant) the scan goes on after a match: the last match wins
ScanLinesLastMatch(lines, i, current_slot, current_info_block) ==
    IF i > Len(lines) THEN ScanExhausted
    ELSE LET line == lines[i]
             rest(slot, block) == ScanLinesLastMatch(lines, i + 1, slot, block)
         IN
         IF SlotLineMatch(line) # None
             THEN rest(SlotLineMatch(line), BlockAfterSlotLine(current_info_block))
         ELSE IF current_slot = None
             THEN rest(current_slot, current_info_block)
         ELSE IF InfoBlockMatch(line) # None
             THEN rest(current_slot, InfoBlockMatch(line))
         ELSE IF current_info_block = None
             THEN rest(current_slot, current_info_block)
         ELSE IF InTokenBlock(current_info_block) /\ InitializedYesMatch(line)
             THEN IF rest(current_slot, current_info_block).raised
                  THEN ScanReturn(current_slot)
                  ELSE rest(current_slot, current_info_block)
         ELSE rest(current_slot, current_info_block)

RECURSIVE ScanLines(_, _, _, _)
\* the for loop over output.splitlines(), from line i on
ScanLines(lines, i, current_slot, current_info_block) ==
    IF i > Len(lines) THEN ScanExhausted
    ELSE LET line == lines[i] IN
         IF SlotLineMatch(line) # None
             THEN ScanLines(lines, i + 1, SlotLineMatch(line),
                            BlockAfterSlotLine(current_info_block))
         ELSE IF current_slot = None
             THEN ScanLines(lines, i + 1, current_slot, current_info_block)
         ELSE IF InfoBlockMatch(line) # None
             THEN ScanLines(lines, i + 1, current_slot, InfoBlockMatch(line))
         ELSE IF current_info_block = None
             THEN ScanLines(lines, i + 1, current_slot, current_info_block)
         ELSE IF InTokenBlock(current_info_block) /\ InitializedYesMatch(line)
             THEN ScanReturn(current_slot)
         ELSE ScanLines(lines, i + 1, current_slot, current_info_block)

\* _find_sofhsm2_token_slot, given the result of the --show-slots command
FindSofhsm2TokenSlot(result) ==
    LET returned == ExecSofthsm2Util(result)
    IN  IF returned.raised THEN Raise
        ELSE ScanLines(SplitLines(returned.value), 1, None, None)

(***************************************************************************)
(* _get_softhsm2_version                                                   *)
(***************************************************************************)
\* re.match('([0-9+])\.([0-9]+).([0-9]+)', output): the three groups, or None.
\* Group 1 is ONE character of the class [0-9+]; the pattern is anchored at
\* the start of the output; the second separator is any character but a
\* line break; group 2 is greedy and backs off until a separator and a digit
\* follow it; group 3 is greedy.
VersionMatch(output) ==
    LET e2 == RunEnd(output, 3, Digits)
        ends == {m \in 4..e2 : /\ m + 1 <= Len(output)
                               /\ output[m] # "\n"
                               /\ output[m + 1] \in Digits}
        m == CHOOSE x \in ends : \A y \in ends : y <= x
    IN  IF /\ Len(output) >= 2
           /\ output[1] \in Digits \cup {"+"}
           /\ output[2] = "."
           /\ ends # {}
        THEN <<SubSeq(output, 1, 1),
               SubSeq(output, 3, m - 1),
               SubSeq(output, m + 1, RunEnd(output, m + 1, Digits) - 1)>>
        ELSE None

\* _get_softhsm2_version, given the result of the --version command:
\* match.group on None raises AttributeError, int("+") raises ValueError
GetSofthsm2Version(result) ==
    LET returned == ExecSofthsm2Util(result)
    IN  IF returned.raised THEN Raise
    ELSE LET match == VersionMatch(returned.value)
         IN  IF match = None THEN Raise
             ELSE IF match[1] = <<"+">> THEN Raise
             ELSE Ret(<<DigitsToInt(match[1]), DigitsToInt(match[2]),
                        DigitsToInt(match[3])>>)

\* (mutant) a triple is smaller as soon as one of its components is
TupleLessAnyComponent(a, b) == a[1] < b[1] \/ a[2] < b[2] \/ a[3] < b[3]

\* Python's tuple comparison a < b on triples
TupleLess(a, b) ==
    \/ a[1] < b[1]
    \/ a[1] = b[1] /\ a[2] < b[2]
    \/ a[1] = b[1] /\ a[2] = b[2] /\ a[3] < b[3]

\* the version below which the installation is too old
MinVersion == <<2, 2, 0>>

(***************************************************************************)
(* The platform checks of run, and _find_softhsm2_lib                      *)
(***************************************************************************)
\* sys.platform == 'darwin' or sys.platform == 'win32'
UnsupportedPlatform(platform) == platform = DARWIN \/ platform = WIN32

\* 'linux' in sys.platform and os.uname()[4][:3] == 'arm'
UnsupportedArch(platform, machine) ==
    /\ Contains(platform, LINUX)
    /\ SubSeq(machine, 1, IF Len(machine) < Len(ARM) THEN Len(machine) ELSE Len(ARM)) = ARM

\* (mutant) lib is searched before lib64
LibDirsLibFirst == <<"lib", "lib64">>

LibDirs == <<"lib64", "lib">>
BaseDirs == <<"/usr/local", "/usr", "/">>

\* the order in which the two nested loops visit the search directories
SearchOrder ==
    [n \in 1..(Len(LibDirs) * Len(BaseDirs)) |->
        [lib_dir |-> LibDirs[((n - 1) \div Len(BaseDirs)) + 1],
         base_dir |-> BaseDirs[((n - 1) % Len(BaseDirs)) + 1]]]

\* the files os.walk(search_dir) yields that pass the file name test; a file
\* is [base_dir, lib_dir, depth, name, path], depth its directory's depth
\* below the search directory (os.walk is top-down)
WalkMatches(files, search) ==
    {f \in files : /\ f.base_dir = search.base_dir
                   /\ f.lib_dir = search.lib_dir
                   /\ f.name = "libsofthsm2.so"}

\* _find_softhsm2_lib: the path of the first match, or None
FindSofthsm2Lib(files) ==
    LET hits == {n \in DOMAIN SearchOrder : WalkMatches(files, SearchOrder[n]) # {}}
        n == CHOOSE x \in hits : \A y \in hits : x <= y
        found == WalkMatches(files, SearchOrder[n])
    IN  IF hits = {} THEN "None"
        ELSE (CHOOSE f \in found : \A g \in found : f.depth <= g.depth).path

(***************************************************************************)
(* The state of one provisioning run (Pkcs11TestSetup.run).                *)
(***************************************************************************)
VARIABLES
    pc,             \* the position of run: the stage about to execute, or
                    \* "Disabled" (an early return), "Failed" (an exception
                    \* left run), "Ready" (run returned after line 90)
    platform,       \* sys.platform
    machine,        \* os.uname()[4]
    shell_env,      \* the variables set by env.shell.setenv in this run
    test_env,       \* env.project.config['test_env'], as written in this run
    cmds,           \* the softhsm2-util invocations made so far, in order
    stages,         \* the stages entered so far, in order
    install_result, \* "none", or how the installer ended: "ok" or "raised"
    softhsm2_lib,   \* the local softhsm2_lib
    version_result, \* what the --version command answered
    slots_result,   \* what the --show-slots command answered
    token_slot,     \* the local token_slot
    key_path,       \* the local key_path
    token_dir,      \* the token directory: whether it exists, and its entries
    conf_file,      \* the text of the config file at conf_path ("None": no file)
    fs_ops,         \* the file-system calls made so far (rm, mkdir,
                    \* write_text), in order, each with its path
    fn_pc,          \* position of a parser called on its own ("off" in a run)
    fn_arg,         \* its argument
    fn_ret,         \* its return
    \* the state of one run of a CI test action (CrtCiTest.run)
    ci_pc,          \* the position of run ("off" outside such a run)
    ci_env,         \* the variables set by env.shell.setenv in this run
    tmp_files,      \* the temporary files and directories that exist
    cert_file_name, \* the local cert_file_name ("unbound" before assignment)
    key_file_name,  \* the local key_file_name ("unbound" before assignment)
    java_sdk_dir,   \* the local java_sdk_dir ("unbound" before assignment)
    actions,        \* the local actions ("unbound" before assignment)
    npm_status,     \* <<what the test command returned>> (None before it ran)
    raising,        \* the exception in flight ("none": none)
    ci_ret          \* how run ended: "none", or [raised, actions]

ci_vars == <<ci_pc, ci_env, tmp_files, cert_file_name, key_file_name,
             java_sdk_dir, actions, npm_status, raising, ci_ret>>

fn_vars == <<fn_pc, fn_arg, fn_ret>>

vars == <<pc, platform, machine, shell_env, test_env, cmds, stages, install_result,
          softhsm2_lib, version_result, slots_result, token_slot, key_path,
          token_dir, conf_file, fs_ops, fn_pc, fn_arg, fn_ret, ci_vars>>

run_vars == <<pc, platform, machine, shell_env, test_env, cmds, stages,
              install_result, softhsm2_lib, version_result, slots_result, token_slot,
              key_path, token_dir, conf_file, fs_ops>>

\* the values the run configures
token_label == "my-token"
pin == "0000"
key_label == "my-key"
conf_path == "/tmp/softhsm2/softhsm2.conf"
token_dir_path == "/tmp/softhsm2/tokens"
key_file_path == "/tmp/privatekey.p8.pem"

LIB_VAR == "AWS_TEST_PKCS11_LIB"
PIN_VAR == "AWS_TEST_PKCS11_PIN"
TOKEN_LABEL_VAR == "AWS_TEST_PKCS11_TOKEN_LABEL"
KEY_LABEL_VAR == "AWS_TEST_PKCS11_KEY_LABEL"
CONF_VAR == "SOFTHSM2_CONF"

\* dict assignment / setenv: var is added or overwritten
SetVar(e, var, value) ==
    [v \in DOMAIN e \cup {var} |-> IF v = var THEN value ELSE e[v]]

NoVars == [v \in {} |-> ""]

\* no CI test action is running
CiIdle ==
    /\ ci_pc = "off"
    /\ ci_env = NoVars
    /\ tmp_files = {}
    /\ cert_file_name = "unbound"
    /\ key_file_name = "unbound"
    /\ java_sdk_dir = "unbound"
    /\ actions = "unbound"
    /\ npm_status = None
    /\ raising = "none"
    /\ ci_ret = "none"

(***************************************************************************)
(* The inputs of a run: the platform, what the file system holds after the *)
(* install, and what each command answers.                                 *)
(***************************************************************************)
Platforms == {LINUX, DARWIN, WIN32, <<"f", "r", "e", "e", "b", "s", "d", "1", "3">>}
Machines == {<<"x", "8", "6", "_", "6", "4">>, <<"a", "r", "m", "v", "7", "l">>,
             <<"a", "a", "r", "c", "h", "6", "4">>}

LibFiles ==
    {[base_dir |-> "/usr", lib_dir |-> "lib64", depth |-> 0, name |-> "libsofthsm2.so",
      path |-> "/usr/lib64/libsofthsm2.so"],
     [base_dir |-> "/usr", lib_dir |-> "lib", depth |-> 1, name |-> "libsofthsm2.so",
      path |-> "/usr/lib/softhsm/libsofthsm2.so"],
     [base_dir |-> "/", lib_dir |-> "lib", depth |-> 0, name |-> "libsofthsm2.so.2",
      path |-> "/lib/libsofthsm2.so.2"]}

\* the files of the file systems the locator is given on its own: LibFiles,
\* and matches and near-matches under the other search directories
WalkedFiles ==
    LibFiles \cup
    {[base_dir |-> "/usr/local", lib_dir |-> "lib64", depth |-> 1, name |-> "libsofthsm2.so",
      path |-> "/usr/local/lib64/softhsm/libsofthsm2.so"],
     [base_dir |-> "/", lib_dir |-> "lib64", depth |-> 0, name |-> "libsofthsm2.so",
      path |-> "/lib64/libsofthsm2.so"],
     [base_dir |-> "/usr", lib_dir |-> "lib64", depth |-> 0, name |-> "libsofthsm2.so.2",
      path |-> "/usr/lib64/libsofthsm2.so.2"],
     [base_dir |-> "/usr/local", lib_dir |-> "lib", depth |-> 0, name |-> "libsofthsm2.so",
      path |-> "/usr/local/lib/libsofthsm2.so"],
     [base_dir |-> "/usr", lib_dir |-> "lib", depth |-> 0, name |-> "libsofthsm2.so",
      path |-> "/usr/lib/libsofthsm2.so"]}

UsageBanner == <<"U", "s", "a", "g", "e", ":", " ", "s", "o", "f", "t", "h", "s", "m", "2", "-", "u", "t", "i", "l", " ", "[", "A", "C", "T", "I", "O", "N", "]", "\n">>

\* what an earlier run may have left at the token directory's path and at
\* conf_path: nothing, an emptied directory, or a directory holding a token
NoDir == [exists |-> FALSE, entries |-> {}]
EmptyDir == [exists |-> TRUE, entries |-> {}]
LeftBehind ==
    {[dir |-> NoDir, conf |-> "None"],
     [dir |-> EmptyDir, conf |-> "directories.tokendir = /tmp/softhsm2/tokens\n"],
     [dir |-> [exists |-> TRUE, entries |-> {"old-token"}],
      conf |-> "directories.tokendir = /tmp/softhsm2/tokens\n"]}

\* one call of env.shell.rm, env.shell.mkdir or pathlib.Path.write_text
FsOp(op, path) == [op |-> op, path |-> path]

\* (mutant) rm leaves the directory and what it holds in place
RmNothing(dir) == dir

\* env.shell.rm(dir) and env.shell.mkdir(dir)
Rm(dir) == NoDir
Mkdir(dir) == IF dir.exists THEN dir ELSE EmptyDir

Ok(output) == [returncode |-> 0, output |-> output]
ExitNonzero == [returncode |-> 1, output |-> << >>]

\* answers of --version in a run: four versions, a text that holds no
\* version, and the usage banner (the version parser alone is given every
\* text within its bound, under SpecVersion)
RunVersionOutputs ==
    {<<"2", ".", "2", ".", "0", "\n">>,
     <<"3", ".", "0", ".", "0", "\n">>,
     <<"2", ".", "1", ".", "0", "\n">>,
     <<"1", ".", "9", ".", "9", "\n">>,
     <<"S", "o", "f", "t", "H", "S", "M", "\n">>,
     UsageBanner}
RunVersionResults == {Ok(o) : o \in RunVersionOutputs} \cup {ExitNonzero}

\* the lines a --show-slots report is made of
SlotLines ==
    {<<"S", "l", "o", "t", " ", "0">>,
     <<"S", "l", "o", "t", " ", "1", "7">>,
     <<" ", " ", " ", " ", "S", "l", "o", "t", " ", "i", "n", "f", "o", ":">>,
     <<" ", " ", " ", " ", "T", "o", "k", "e", "n", " ", "i", "n", "f", "o", ":">>,
     <<" ", " ", " ", " ", " ", " ", " ", " ", "I", "n", "i", "t", "i", "a", "l", "i", "z", "e", "d", ":", " ", "y", "e", "s">>}

\* the lines of a report whose slots hold Token info blocks only
TokenLines == {l \in SlotLines : InfoBlockMatch(l) # None => Contains(l, TOKEN_INFO)}

\* every report of at most n such lines
TokenReports(n) == {JoinLines(ls) : ls \in UNION {[1..k -> TokenLines] : k \in 0..n}}

\* every report of at most n lines
Reports(n) == {JoinLines(ls) : ls \in UNION {[1..k -> SlotLines] : k \in 0..n}}

RunSlotsResults == {Ok(o) : o \in Reports(MaxRunLines)} \cup {Ok(UsageBanner), ExitNonzero}

\* answers of --init-token and --import
CommandResults == {Ok(<<"o", "k", "\n">>), Ok(UsageBanner), ExitNonzero}

(***************************************************************************)
(* run, stage by stage.                                                    *)
(***************************************************************************)
Init ==
    /\ pc = "CheckEligibility"
    /\ platform \in Platforms
    /\ machine \in Machines
    /\ shell_env = NoVars
    /\ test_env = NoVars
    /\ cmds = << >>
    /\ stages = << >>
    /\ install_result = "none"
    /\ softhsm2_lib = "None"
    /\ version_result = None
    /\ slots_result = None
    /\ token_slot = None
    /\ key_path = "None"
    /\ \E left \in LeftBehind : token_dir = left.dir /\ conf_file = left.conf
    /\ fs_ops = << >>
    /\ fn_pc = "off"
    /\ fn_arg = None
    /\ fn_ret = None
    /\ CiIdle

\* one softhsm2-util invocation: its arguments, what the command answered,
\* and whether _exec_softhsm2_util returned (ok) or raised
Command(op, result) ==
    [op |-> op, label |-> "", pin |-> "", key_path |-> "", slot |-> None,
     result |-> result, ok |-> ~ExecSofthsm2Util(result).raised]

\* (mutant) the variable is set in the shell only
SetenvShellOnly(var, value) ==
    /\ shell_env' = SetVar(shell_env, var, value)
    /\ test_env' = test_env

\* _setenv(var, value)
Setenv(var, value) ==
    /\ shell_env' = SetVar(shell_env, var, value)
    /\ test_env' = SetVar(test_env, var, value)

Enter(stage) == stages' = Append(stages, stage)

\* lines 21-29
CheckEligibility ==
    /\ pc = "CheckEligibility"
    /\ Enter("CheckEligibility")
    /\ pc' = IF UnsupportedPlatform(platform) THEN "Disabled"
             ELSE IF UnsupportedArch(platform, machine) THEN "Disabled"
             ELSE "InstallEmulator"
    /\ UNCHANGED <<platform, machine, install_result, shell_env, test_env,
                   cmds, softhsm2_lib, version_result, slots_result,
                   token_slot, key_path, token_dir, conf_file, fn_pc, fn_arg,
                   fn_ret, fs_ops, ci_vars>>

\* (mutant) the exception of the installer is not caught
InstallEmulatorUncaught ==
    /\ pc = "InstallEmulator"
    /\ Enter("InstallEmulator")
    /\ \E installed \in BOOLEAN :
           /\ install_result' = IF installed THEN "ok" ELSE "raised"
           /\ pc' = IF installed THEN "LocateLibrary" ELSE "Failed"
    /\ UNCHANGED <<platform, machine, shell_env, test_env, cmds, softhsm2_lib,
                   version_result, slots_result, token_slot, key_path,
                   token_dir, conf_file, fn_pc, fn_arg, fn_ret, fs_ops,
                   ci_vars>>

\* lines 31-37: the installer may raise any exception
InstallEmulator ==
    /\ pc = "InstallEmulator"
    /\ Enter("InstallEmulator")
    /\ \E installed \in BOOLEAN :
           /\ install_result' = IF installed THEN "ok" ELSE "raised"
           /\ pc' = IF installed THEN "LocateLibrary" ELSE "Disabled"
    /\ UNCHANGED <<platform, machine, shell_env, test_env, cmds, softhsm2_lib,
                   version_result, slots_result, token_slot, key_path,
                   token_dir, conf_file, fn_pc, fn_arg, fn_ret, fs_ops,
                   ci_vars>>

\* (mutant) the `return` of line 42 is missing
AfterLocateNoReturn(lib) == "Configure"

\* where run goes after _find_softhsm2_lib returned `lib`
AfterLocate(lib) == IF lib = "None" THEN "Disabled" ELSE "Configure"

\* lines 39-42
LocateLibrary ==
    /\ pc = "LocateLibrary"
    /\ Enter("LocateLibrary")
    /\ \E files \in SUBSET LibFiles :
           /\ softhsm2_lib' = FindSofthsm2Lib(files)
           /\ pc' = AfterLocate(FindSofthsm2Lib(files))
    /\ UNCHANGED <<platform, machine, install_result, shell_env, test_env,
                   cmds, version_result, slots_result, token_slot, key_path,
                   token_dir, conf_file, fn_pc, fn_arg, fn_ret, fs_ops,
                   ci_vars>>

\* the file-system calls of lines 48-53
ConfigureFsOps(dir) ==
    (IF dir.exists THEN <<FsOp("rm", token_dir_path)>> ELSE << >>)
        \o <<FsOp("mkdir", token_dir_path), FsOp("write_text", conf_path)>>

\* (mutant) the library path is published as soon as it is known
ConfigurePublishingLib ==
    /\ pc = "Configure"
    /\ shell_env' = SetVar(SetVar(shell_env, CONF_VAR, conf_path), LIB_VAR, softhsm2_lib)
    /\ test_env' = SetVar(SetVar(test_env, CONF_VAR, conf_path), LIB_VAR, softhsm2_lib)
    /\ token_dir' = Mkdir(IF token_dir.exists THEN Rm(token_dir) ELSE token_dir)
    /\ conf_file' = "directories.tokendir = /tmp/softhsm2/tokens\n"
    /\ pc' = "CheckVersion"
    /\ fs_ops' = fs_ops \o ConfigureFsOps(token_dir)
    /\ UNCHANGED <<platform, machine, install_result, cmds, stages,
                   softhsm2_lib, version_result, slots_result, token_slot,
                   key_path, fn_pc, fn_arg, fn_ret, ci_vars>>

\* lines 44-53: the token directory, SOFTHSM2_CONF and the config file
Configure ==
    /\ pc = "Configure"
    /\ Setenv(CONF_VAR, conf_path)
    /\ token_dir' = Mkdir(IF token_dir.exists THEN Rm(token_dir) ELSE token_dir)
    /\ conf_file' = "directories.tokendir = /tmp/softhsm2/tokens\n"
    /\ pc' = "CheckVersion"
    /\ fs_ops' = fs_ops \o ConfigureFsOps(token_dir)
    /\ UNCHANGED <<platform, machine, install_result, cmds, stages,
                   softhsm2_lib, version_result, slots_result, token_slot,
                   key_path, fn_pc, fn_arg, fn_ret, ci_vars>>

\* (mutant) an error of the version check is caught and disables the tests
AfterVersionCaught(version) ==
    IF version.raised THEN "Disabled"
    ELSE IF TupleLess(version.value, MinVersion) THEN "Disabled"
    ELSE "InitializeToken"

\* where run goes after _get_softhsm2_version returned `version`
AfterVersion(version) ==
    IF version.raised THEN "Failed"
    ELSE IF TupleLess(version.value, MinVersion) THEN "Disabled"
    ELSE "InitializeToken"

\* lines 55-59
CheckVersion ==
    /\ pc = "CheckVersion"
    /\ Enter("CheckVersion")
    /\ \E result \in RunVersionResults :
           /\ version_result' = result
           /\ pc' = AfterVersion(GetSofthsm2Version(result))
           /\ cmds' = Append(cmds, Command("--version", result))
    /\ UNCHANGED <<platform, machine, install_result, shell_env, test_env,
                   softhsm2_lib, slots_result, token_slot, key_path,
                   token_dir, conf_file, fn_pc, fn_arg, fn_ret, fs_ops,
                   ci_vars>>

\* (mutant) the outcome of --init-token is not checked
AfterInitUnchecked(returned) == "ResolveSlot"

\* where run goes after the --init-token command returned or raised
AfterInit(returned) == IF returned.raised THEN "Failed" ELSE "ResolveSlot"

\* lines 61-65: a command that returned has put the token in the directory
InitializeToken ==
    /\ pc = "InitializeToken"
    /\ Enter("InitializeToken")
    /\ \E result \in CommandResults :
           /\ pc' = AfterInit(ExecSofthsm2Util(result))
           /\ token_dir' = IF ExecSofthsm2Util(result).raised THEN token_dir
                           ELSE [token_dir EXCEPT !.entries = @ \cup {token_label}]
           /\ cmds' = Append(cmds, [Command("--init-token", result) EXCEPT
                                        !.label = token_label, !.pin = pin])
    /\ UNCHANGED <<platform, machine, install_result, shell_env, test_env,
                   softhsm2_lib, version_result, slots_result, token_slot,
                   key_path, conf_file, fn_pc, fn_arg, fn_ret, fs_ops, ci_vars>>

\* where run goes after _find_sofhsm2_token_slot returned `slot`
AfterSlot(slot) == IF slot.raised THEN "Failed" ELSE "FetchKey"

\* line 75
ResolveSlot ==
    /\ pc = "ResolveSlot"
    /\ Enter("ResolveSlot")
    /\ \E result \in RunSlotsResults :
           /\ slots_result' = result
           /\ token_slot' = FindSofhsm2TokenSlot(result).value
           /\ pc' = AfterSlot(FindSofhsm2TokenSlot(result))
           /\ cmds' = Append(cmds, Command("--show-slots", result))
    /\ UNCHANGED <<platform, machine, install_result, shell_env, test_env,
                   softhsm2_lib, version_result, key_path, token_dir,
                   conf_file, fn_pc, fn_arg, fn_ret, fs_ops, ci_vars>>

\* lines 80-81: _tmpfile_from_secret raises when the secret cannot be had
FetchKey ==
    /\ pc = "FetchKey"
    /\ Enter("ImportKey")
    /\ \E fetched \in BOOLEAN :
           /\ pc' = IF fetched THEN "ImportKey" ELSE "Failed"
           /\ key_path' = IF fetched THEN key_file_path ELSE key_path
           /\ fs_ops' = IF fetched THEN Append(fs_ops, FsOp("write_text", key_file_path))
                        ELSE fs_ops
    /\ UNCHANGED <<platform, machine, install_result, shell_env, test_env,
                   cmds, softhsm2_lib, version_result, slots_result,
                   token_slot, token_dir, conf_file, fn_pc, fn_arg, fn_ret,
                   ci_vars>>

\* (mutant) the import names slot 0 whatever the parser found
ImportSlotZero == <<"0">>

\* the --slot argument of the import
ImportSlotArg == token_slot

\* (mutant) the outcome of --import is not checked
AfterImportUnchecked(returned) == "PublishLib"

\* where run goes after the --import command returned or raised
AfterImport(returned) == IF returned.raised THEN "Failed" ELSE "PublishLib"

\* lines 82-84
ImportKey ==
    /\ pc = "ImportKey"
    /\ \E result \in CommandResults :
           /\ pc' = AfterImport(ExecSofthsm2Util(result))
           /\ cmds' = Append(cmds, [Command("--import", result) EXCEPT
                                        !.key_path = key_path, !.slot = ImportSlotArg,
                                        !.label = key_label, !.pin = pin])
    /\ UNCHANGED <<platform, machine, install_result, shell_env, test_env,
                   stages, softhsm2_lib, version_result, slots_result,
                   token_slot, key_path, token_dir, conf_file, fn_pc, fn_arg,
                   fn_ret, fs_ops, ci_vars>>

\* line 87
PublishLib ==
    /\ pc = "PublishLib"
    /\ Enter("PublishEnvironment")
    /\ Setenv(LIB_VAR, softhsm2_lib)
    /\ pc' = "PublishPin"
    /\ UNCHANGED <<platform, machine, install_result, cmds, softhsm2_lib,
                   version_result, slots_result, token_slot, key_path,
                   token_dir, conf_file, fn_pc, fn_arg, fn_ret, fs_ops,
                   ci_vars>>

\* line 88
PublishPin ==
    /\ pc = "PublishPin"
    /\ Setenv(PIN_VAR, pin)
    /\ pc' = "PublishTokenLabel"
    /\ UNCHANGED <<platform, machine, install_result, cmds, stages,
                   softhsm2_lib, version_result, slots_result, token_slot,
                   key_path, token_dir, conf_file, fn_pc, fn_arg, fn_ret,
                   fs_ops, ci_vars>>

\* line 89
PublishTokenLabel ==
    /\ pc = "PublishTokenLabel"
    /\ Setenv(TOKEN_LABEL_VAR, token_label)
    /\ pc' = "PublishKeyLabel"
    /\ UNCHANGED <<platform, machine, install_result, cmds, stages,
                   softhsm2_lib, version_result, slots_result, token_slot,
                   key_path, token_dir, conf_file, fn_pc, fn_arg, fn_ret,
                   fs_ops, ci_vars>>

\* line 90, after which run returns
PublishKeyLabel ==
    /\ pc = "PublishKeyLabel"
    /\ Setenv(KEY_LABEL_VAR, key_label)
    /\ pc' = "Ready"
    /\ UNCHANGED <<platform, machine, install_result, cmds, stages,
                   softhsm2_lib, version_result, slots_result, token_slot,
                   key_path, token_dir, conf_file, fn_pc, fn_arg, fn_ret,
                   fs_ops, ci_vars>>

Next ==
    \/ CheckEligibility
    \/ InstallEmulator
    \/ LocateLibrary
    \/ Configure
    \/ CheckVersion
    \/ InitializeToken
    \/ ResolveSlot
    \/ FetchKey
    \/ ImportKey
    \/ PublishLib
    \/ PublishPin
    \/ PublishTokenLabel
    \/ PublishKeyLabel

Spec == Init /\ [][Next]_vars

(***************************************************************************)
(* The two parsers called on their own, on every text within the bounds.   *)
(***************************************************************************)
Idle ==
    /\ pc = "off"
    /\ platform = LINUX
    /\ machine = None
    /\ shell_env = NoVars
    /\ test_env = NoVars
    /\ cmds = << >>
    /\ stages = << >>
    /\ install_result = "none"
    /\ softhsm2_lib = "None"
    /\ version_result = None
    /\ slots_result = None
    /\ token_slot = None
    /\ key_path = "None"
    /\ token_dir = NoDir
    /\ conf_file = "None"
    /\ fs_ops = << >>

InitSlot ==
    /\ Idle
    /\ CiIdle
    /\ fn_pc = "find_slot"
    /\ fn_arg \in {Ok(o) : o \in Reports(MaxLines)} \cup {Ok(UsageBanner), ExitNonzero}
    /\ fn_ret = None

CallFindSlot ==
    /\ fn_pc = "find_slot"
    /\ fn_ret' = FindSofhsm2TokenSlot(fn_arg)
    /\ fn_pc' = "done"
    /\ UNCHANGED <<run_vars, fn_arg, ci_vars>>

SpecSlot == InitSlot /\ [][CallFindSlot]_vars

\* the slot parser on every report of slots that hold Token info blocks only
InitSlotToken ==
    /\ Idle
    /\ CiIdle
    /\ fn_pc = "find_slot"
    /\ fn_arg \in {Ok(o) : o \in TokenReports(MaxTokenLines)}
    /\ fn_ret = None

SpecSlotToken == InitSlotToken /\ [][CallFindSlot]_vars

\* lines 39-42 on their own, on every file system made of WalkedFiles
InitLib ==
    /\ Idle
    /\ CiIdle
    /\ fn_pc = "find_lib"
    /\ fn_arg \in SUBSET WalkedFiles
    /\ fn_ret = None

CallFindLib ==
    /\ fn_pc = "find_lib"
    /\ fn_ret' = Ret(FindSofthsm2Lib(fn_arg))
    /\ softhsm2_lib' = FindSofthsm2Lib(fn_arg)
    /\ pc' = AfterLocate(FindSofthsm2Lib(fn_arg))
    /\ fn_pc' = "done"
    /\ UNCHANGED <<platform, machine, shell_env, test_env, cmds, stages,
                   install_result, version_result, slots_result, token_slot,
                   key_path, token_dir, conf_file, fs_ops, fn_arg, ci_vars>>

SpecLib == InitLib /\ [][CallFindLib]_vars

VersionChars == {"0", "2", ".", "+", "v"}

\* every text of at most n characters
Texts(n) == UNION {[1..k -> VersionChars] : k \in 0..n}

InitVersion ==
    /\ Idle
    /\ CiIdle
    /\ fn_pc = "get_version"
    /\ fn_arg \in {Ok(o) : o \in Texts(MaxVersionLen)} \cup {Ok(UsageBanner), ExitNonzero}
    /\ fn_ret = None

CallGetVersion ==
    /\ fn_pc = "get_version"
    /\ fn_ret' = GetSofthsm2Version(fn_arg)
    /\ fn_pc' = "done"
    /\ UNCHANGED <<run_vars, fn_arg, ci_vars>>

SpecVersion == InitVersion /\ [][CallGetVersion]_vars

(***************************************************************************)
(* The browser CI test action (.builder/actions/crt-browser-ci-test.py).   *)
(***************************************************************************)
\* longest environment script, in lines
MaxScriptLines == 2

EXPORT == <<"e", "x", "p", "o", "r", "t">>
COGNITO_VAR == <<"A", "W", "S", "_", "T", "E", "S", "T", "I", "N", "G", "_", "C", "O", "G", "N", "I", "T", "O", "_", "I", "D", "E", "N", "T", "I", "T", "Y">>
CERT_PATH_VAR == <<"A", "W", "S", "_", "T", "E", "S", "T", "_", "M", "Q", "T", "T", "5", "_", "I", "O", "T", "_", "C", "O", "R", "E", "_", "C", "E", "R", "T", "I", "F", "I", "C", "A", "T", "E", "_", "P", "A", "T", "H">>
KEY_PATH_VAR == <<"A", "W", "S", "_", "T", "E", "S", "T", "_", "M", "Q", "T", "T", "5", "_", "I", "O", "T", "_", "C", "O", "R", "E", "_", "K", "E", "Y", "_", "P", "A", "T", "H">>

\* the regular expression classes \s and \w
Whitespace == {" ", "\t"}
WordChars ==
    Digits \cup {"_"} \cup
    {"a", "b", "c", "d", "e", "f", "g", "h", "i", "j", "k", "l", "m",
     "n", "o", "p", "q", "r", "s", "t", "u", "v", "w", "x", "y", "z"} \cup
    {"A", "B", "C", "D", "E", "F", "G", "H", "I", "J", "K", "L", "M",
     "N", "O", "P", "Q", "R", "S", "T", "U", "V", "W", "X", "Y", "Z"}

\* re.compile('^export\s+(\w+)=(.+)').match(line): groups 1 and 2, or None
EnvLineMatch(line) ==
    LET a == RunEnd(line, Len(EXPORT) + 1, Whitespace)
        b == RunEnd(line, a, WordChars)
    IN  IF /\ StartsWithAt(line, 1, EXPORT)
           /\ a > Len(EXPORT) + 1
           /\ b > a
           /\ b < Len(line)
           /\ line[b] = "="
        THEN <<SubSeq(line, a, b - 1), SubSeq(line, b + 1, Len(line))>>
        ELSE None

RECURSIVE WriteEnvLines(_, _, _)
\* the loop of lines 13-16 from line i on, e the variables set so far:
\* .group on a line that did not match raises AttributeError
WriteEnvLines(lines, i, e) ==
    IF i > Len(lines) THEN [raised |-> FALSE, env |-> e]
    ELSE LET env_pair_match == EnvLineMatch(lines[i])
         IN  IF env_pair_match = None THEN [raised |-> TRUE, env |-> e]
             ELSE IF env_pair_match[1] # << >> /\ env_pair_match[2] # << >>
                 THEN WriteEnvLines(lines, i + 1,
                                    SetVar(e, env_pair_match[1], env_pair_match[2]))
             ELSE WriteEnvLines(lines, i + 1, e)

\* the lines an environment script is made of
EnvScriptLines ==
    {<<"e", "x", "p", "o", "r", "t", " ", "A", "=", "1">>,
     <<"e", "x", "p", "o", "r", "t", " ", "A", "=", "2">>,
     <<"e", "x", "p", "o", "r", "t", " ", " ", "B", "_", "2", "=", "x", " ", "y">>,
     <<"#", " ", "C", "I">>}

\* every script of at most n lines
EnvScripts(n) == {JoinLines(ls) : ls \in UNION {[1..k -> EnvScriptLines] : k \in 0..n}}

\* how _write_secret_to_temp_file may end: it returns the file's name, the
\* secret cannot be had (nothing is created), or mkstemp has created the
\* file and os.write fails
WriteOutcomes == {"ok", "no_secret", "no_write"}

\* the names mkstemp gives to the two files
CertFile == "/tmp/tmp_cert"
KeyFile == "/tmp/tmp_key"

\* what os.system returns for npm run test:browser:ci: 0, or the wait status
\* of a command that exited with status 1 or 2
NpmStatuses == {0, 256, 512}

InitBrowser ==
    /\ Idle
    /\ fn_pc = "off"
    /\ fn_arg = None
    /\ fn_ret = None
    /\ ci_pc = "cognito"
    /\ ci_env = NoVars
    /\ tmp_files = {}
    /\ cert_file_name = "unbound"
    /\ key_file_name = "unbound"
    /\ java_sdk_dir = "unbound"
    /\ actions = "unbound"
    /\ npm_status = None
    /\ raising = "none"
    /\ ci_ret = "none"

\* an exception leaves run
CiRaised == [raised |-> TRUE, actions |-> << >>]

\* run returns Builder.Script(acts)
CiReturned(acts) == [raised |-> FALSE, actions |-> acts]

\* line 28, outside the try: a failing get_secret leaves run
BrowserSetCognito ==
    /\ ci_pc = "cognito"
    /\ \E got \in BOOLEAN :
           IF got
           THEN /\ ci_env' = SetVar(ci_env, COGNITO_VAR, <<"i", "d">>)
                /\ ci_pc' = "env_script"
                /\ ci_ret' = ci_ret
           ELSE /\ ci_env' = ci_env
                /\ ci_pc' = "done"
                /\ ci_ret' = CiRaised
    /\ UNCHANGED <<run_vars, fn_vars, tmp_files, cert_file_name,
                   key_file_name, actions, npm_status, raising, java_sdk_dir>>

\* line 30 (lines 8-16), outside the try
BrowserWriteEnvironmentScript ==
    /\ ci_pc = "env_script"
    /\ \/ \* get_secret raises
          /\ ci_env' = ci_env
          /\ ci_pc' = "done"
          /\ ci_ret' = CiRaised
       \/ \E script \in EnvScripts(MaxScriptLines) :
              LET written == WriteEnvLines(SplitLines(script), 1, ci_env)
              IN  /\ ci_env' = written.env
                  /\ ci_pc' = IF written.raised THEN "done" ELSE "write_cert"
                  /\ ci_ret' = IF written.raised THEN CiRaised ELSE ci_ret
    /\ UNCHANGED <<run_vars, fn_vars, tmp_files, cert_file_name,
                   key_file_name, actions, npm_status, raising, java_sdk_dir>>

\* _write_secret_to_temp_file (lines 18-25) ending in `outcome` for the file
\* that mkstemp names `filename`: the files that exist afterwards
FilesAfterWrite(files, outcome, filename) ==
    IF outcome = "no_secret" THEN files ELSE files \cup {filename}

\* line 35, the first statement of the try
BrowserWriteCert ==
    /\ ci_pc = "write_cert"
    /\ \E outcome \in WriteOutcomes :
           /\ tmp_files' = FilesAfterWrite(tmp_files, outcome, CertFile)
           /\ cert_file_name' = IF outcome = "ok" THEN CertFile ELSE cert_file_name
           /\ raising' = IF outcome = "ok" THEN raising ELSE "Exception"
           /\ ci_pc' = IF outcome = "ok" THEN "write_key" ELSE "remove_cert"
    /\ UNCHANGED <<run_vars, fn_vars, ci_env, key_file_name, actions,
                   npm_status, ci_ret, java_sdk_dir>>

\* line 36
BrowserWriteKey ==
    /\ ci_pc = "write_key"
    /\ \E outcome \in WriteOutcomes :
           /\ tmp_files' = FilesAfterWrite(tmp_files, outcome, KeyFile)
           /\ key_file_name' = IF outcome = "ok" THEN KeyFile ELSE key_file_name
           /\ raising' = IF outcome = "ok" THEN raising ELSE "Exception"
           /\ ci_pc' = IF outcome = "ok" THEN "set_paths" ELSE "remove_cert"
    /\ UNCHANGED <<run_vars, fn_vars, ci_env, cert_file_name, actions,
                   npm_status, ci_ret, java_sdk_dir>>

\* lines 38-39
BrowserSetPaths ==
    /\ ci_pc = "set_paths"
    /\ ci_env' = SetVar(SetVar(ci_env, CERT_PATH_VAR, cert_file_name),
                        KEY_PATH_VAR, key_file_name)
    /\ ci_pc' = "run_tests"
    /\ UNCHANGED <<run_vars, fn_vars, tmp_files, cert_file_name,
                   key_file_name, actions, npm_status, raising, ci_ret,
                   java_sdk_dir>>

\* lines 41-43: `actions` is a local of run (line 51 assigns it) that is not
\* yet bound here, so actions.append raises UnboundLocalError
BrowserRunTests ==
    /\ ci_pc = "run_tests"
    /\ \E status \in NpmStatuses :
           /\ npm_status' = <<status>>
           /\ IF status = 0
              THEN actions' = actions /\ raising' = raising
              ELSE IF actions = "unbound"
              THEN actions' = actions /\ raising' = "UnboundLocalError"
              ELSE actions' = Append(actions, "exit 1") /\ raising' = raising
    /\ ci_pc' = "remove_cert"
    /\ UNCHANGED <<run_vars, fn_vars, ci_env, tmp_files, cert_file_name,
                   key_file_name, ci_ret, java_sdk_dir>>

\* lines 46-47, in the finally: reading a cert_file_name that was never
\* assigned raises UnboundLocalError out of the finally
BrowserRemoveCert ==
    /\ ci_pc = "remove_cert"
    /\ IF cert_file_name = "unbound"
       THEN /\ raising' = "UnboundLocalError"
            /\ ci_pc' = "done"
            /\ ci_ret' = CiRaised
            /\ tmp_files' = tmp_files
       ELSE /\ raising' = raising
            /\ ci_pc' = "remove_key"
            /\ ci_ret' = ci_ret
            /\ tmp_files' = tmp_files \ {cert_file_name}
    /\ UNCHANGED <<run_vars, fn_vars, ci_env, cert_file_name, key_file_name,
                   actions, npm_status, java_sdk_dir>>

\* lines 48-49, after which the exception in flight, if any, leaves run
BrowserRemoveKey ==
    /\ ci_pc = "remove_key"
    /\ IF key_file_name = "unbound"
       THEN /\ raising' = "UnboundLocalError"
            /\ ci_pc' = "done"
            /\ ci_ret' = CiRaised
            /\ tmp_files' = tmp_files
       ELSE /\ raising' = raising
            /\ ci_pc' = IF raising = "none" THEN "return" ELSE "done"
            /\ ci_ret' = IF raising = "none" THEN ci_ret ELSE CiRaised
            /\ tmp_files' = tmp_files \ {key_file_name}
    /\ UNCHANGED <<run_vars, fn_vars, ci_env, cert_file_name, key_file_name,
                   actions, npm_status, java_sdk_dir>>

\* lines 51-53
BrowserReturn ==
    /\ ci_pc = "return"
    /\ actions' = << >>
    /\ ci_ret' = CiReturned(<< >>)
    /\ ci_pc' = "done"
    /\ UNCHANGED <<run_vars, fn_vars, ci_env, tmp_files, cert_file_name,
                   key_file_name, npm_status, raising, java_sdk_dir>>

NextBrowser ==
    \/ BrowserSetCognito
    \/ BrowserWriteEnvironmentScript
    \/ BrowserWriteCert
    \/ BrowserWriteKey
    \/ BrowserSetPaths
    \/ BrowserRunTests
    \/ BrowserRemoveCert
    \/ BrowserRemoveKey
    \/ BrowserReturn

SpecBrowser == InitBrowser /\ [][NextBrowser]_vars

(***************************************************************************)
(* The native CI test action (.builder/actions/crt-ci-test.py).            *)
(***************************************************************************)
PKCS12_KEY_VAR == <<"A", "W", "S", "_", "T", "E", "S", "T", "_", "M", "Q", "T", "T", "3", "1", "1", "_", "I", "O", "T", "_", "C", "O", "R", "E", "_", "P", "K", "C", "S", "1", "2", "_", "K", "E", "Y">>
PKCS12_PASSWORD_VAR == <<"A", "W", "S", "_", "T", "E", "S", "T", "_", "M", "Q", "T", "T", "3", "1", "1", "_", "I", "O", "T", "_", "C", "O", "R", "E", "_", "P", "K", "C", "S", "1", "2", "_", "K", "E", "Y", "_", "P", "A", "S", "S", "W", "O", "R", "D">>
ECHO_HOST_VAR == <<"A", "W", "S", "_", "T", "E", "S", "T", "_", "E", "V", "E", "N", "T", "_", "S", "T", "R", "E", "A", "M", "_", "E", "C", "H", "O", "_", "S", "E", "R", "V", "E", "R", "_", "H", "O", "S", "T">>
ECHO_PORT_VAR == <<"A", "W", "S", "_", "T", "E", "S", "T", "_", "E", "V", "E", "N", "T", "_", "S", "T", "R", "E", "A", "M", "_", "E", "C", "H", "O", "_", "S", "E", "R", "V", "E", "R", "_", "P", "O", "R", "T">>

\* the names NamedTemporaryFile and env.shell.mktemp give
Pkcs12File == "/tmp/tmp_pkcs12"
JavaSdkDir == "/tmp/tmp_java_sdk"

\* how _build_and_run_eventstream_echo_server may go: mvn --version fails
\* (before mktemp), a later step fails (after mktemp), or the server starts
EchoServerOutcomes == {"no_maven", "build_failed", "started"}

\* the exit codes of npm run test:native
NpmExitCodes == {0, 1}

InitNative ==
    /\ Idle
    /\ fn_pc = "off"
    /\ fn_arg = None
    /\ fn_ret = None
    /\ ci_pc = "native_begin"
    /\ ci_env = NoVars
    /\ tmp_files = {}
    /\ cert_file_name = "unbound"
    /\ key_file_name = "unbound"
    /\ java_sdk_dir = "unbound"
    /\ actions = "unbound"
    /\ npm_status = None
    /\ raising = "none"
    /\ ci_ret = "none"

\* lines 95-98
NativeBegin ==
    /\ ci_pc = "native_begin"
    /\ actions' = << >>
    /\ java_sdk_dir' = "None"
    /\ cert_file_name' = "None"
    /\ key_file_name' = "None"
    /\ ci_pc' = "native_pkcs12"
    /\ UNCHANGED <<run_vars, fn_vars, ci_env, tmp_files, npm_status, raising, ci_ret>>

\* lines 100-104 (lines 31-42), before the try: on darwin the PKCS12 key is
\* copied to a temporary file, and a failing copy leaves run as RuntimeError
NativePkcs12 ==
    /\ ci_pc = "native_pkcs12"
    /\ \E sys_platform \in {LINUX, DARWIN}, copied \in BOOLEAN :
           IF sys_platform # DARWIN
           THEN /\ ci_pc' = "native_echo_server"
                /\ UNCHANGED <<ci_env, tmp_files, raising, ci_ret>>
           ELSE /\ tmp_files' = tmp_files \cup {Pkcs12File}
                /\ IF copied
                   THEN /\ ci_env' = SetVar(SetVar(ci_env, PKCS12_KEY_VAR, Pkcs12File),
                                            PKCS12_PASSWORD_VAR, "PKCS12_KEY_PASSWORD")
                        /\ ci_pc' = "native_echo_server"
                        /\ UNCHANGED <<raising, ci_ret>>
                   ELSE /\ ci_env' = ci_env
                        /\ raising' = "RuntimeError"
                        /\ ci_ret' = CiRaised
                        /\ ci_pc' = "done"
    /\ UNCHANGED <<run_vars, fn_vars, cert_file_name, key_file_name, java_sdk_dir,
                   actions, npm_status>>

\* line 107 (lines 44-91): every failure inside is caught by the bare except
\* of line 88, and java_sdk_dir is returned as far as it got
NativeEchoServer ==
    /\ ci_pc = "native_echo_server"
    /\ \E outcome \in EchoServerOutcomes :
           /\ java_sdk_dir' = IF outcome = "no_maven" THEN "None" ELSE JavaSdkDir
           /\ tmp_files' = IF outcome = "no_maven" THEN tmp_files
                           ELSE tmp_files \cup {JavaSdkDir}
           /\ ci_env' = IF outcome = "started"
                        THEN SetVar(SetVar(ci_env, ECHO_HOST_VAR, "127.0.0.1"),
                                    ECHO_PORT_VAR, "8033")
                        ELSE ci_env
    /\ ci_pc' = "native_cognito"
    /\ UNCHANGED <<run_vars, fn_vars, cert_file_name, key_file_name, actions,
                   npm_status, raising, ci_ret>>

\* line 109
NativeSetCognito ==
    /\ ci_pc = "native_cognito"
    /\ \E got \in BOOLEAN :
           /\ ci_env' = IF got THEN SetVar(ci_env, COGNITO_VAR, <<"i", "d">>) ELSE ci_env
           /\ raising' = IF got THEN raising ELSE "Exception"
           /\ ci_pc' = IF got THEN "native_env_script" ELSE "native_except"
    /\ UNCHANGED <<run_vars, fn_vars, tmp_files, cert_file_name, key_file_name,
                   java_sdk_dir, actions, npm_status, ci_ret>>

\* line 113 (lines 12-20)
NativeWriteEnvironmentScript ==
    /\ ci_pc = "native_env_script"
    /\ \/ \* get_secret raises
          /\ ci_env' = ci_env
          /\ raising' = "Exception"
          /\ ci_pc' = "native_except"
       \/ \E script \in EnvScripts(MaxScriptLines) :
              LET written == WriteEnvLines(SplitLines(script), 1, ci_env)
              IN  /\ ci_env' = written.env
                  /\ raising' = IF written.raised THEN "AttributeError" ELSE raising
                  /\ ci_pc' = IF written.raised THEN "native_except"
                              ELSE "native_write_cert"
    /\ UNCHANGED <<run_vars, fn_vars, tmp_files, cert_file_name, key_file_name,
                   java_sdk_dir, actions, npm_status, ci_ret>>

\* line 115 (lines 22-29)
NativeWriteCert ==
    /\ ci_pc = "native_write_cert"
    /\ \E outcome \in WriteOutcomes :
           /\ tmp_files' = FilesAfterWrite(tmp_files, outcome, CertFile)
           /\ cert_file_name' = IF outcome = "ok" THEN CertFile ELSE cert_file_name
           /\ raising' = IF outcome = "ok" THEN raising ELSE "Exception"
           /\ ci_pc' = IF outcome = "ok" THEN "native_write_key" ELSE "native_except"
    /\ UNCHANGED <<run_vars, fn_vars, ci_env, key_file_name, java_sdk_dir, actions,
                   npm_status, ci_ret>>

\* line 116
NativeWriteKey ==
    /\ ci_pc = "native_write_key"
    /\ \E outcome \in WriteOutcomes :
           /\ tmp_files' = FilesAfterWrite(tmp_files, outcome, KeyFile)
           /\ key_file_name' = IF outcome = "ok" THEN KeyFile ELSE key_file_name
           /\ raising' = IF outcome = "ok" THEN raising ELSE "Exception"
           /\ ci_pc' = IF outcome = "ok" THEN "native_set_paths" ELSE "native_except"
    /\ UNCHANGED <<run_vars, fn_vars, ci_env, cert_file_name, java_sdk_dir, actions,
                   npm_status, ci_ret>>

\* lines 118-119
NativeSetPaths ==
    /\ ci_pc = "native_set_paths"
    /\ ci_env' = SetVar(SetVar(ci_env, CERT_PATH_VAR, cert_file_name),
                        KEY_PATH_VAR, key_file_name)
    /\ ci_pc' = "native_run_tests"
    /\ UNCHANGED <<run_vars, fn_vars, tmp_files, cert_file_name, key_file_name,
                   java_sdk_dir, actions, npm_status, raising, ci_ret>>

\* line 121: check=True raises on a nonzero exit code
NativeRunTests ==
    /\ ci_pc = "native_run_tests"
    /\ \E returncode \in NpmExitCodes :
           /\ npm_status' = <<returncode>>
           /\ raising' = IF returncode = 0 THEN raising ELSE "Exception"
           /\ ci_pc' = IF returncode = 0 THEN "native_remove_cert" ELSE "native_except"
    /\ UNCHANGED <<run_vars, fn_vars, ci_env, tmp_files, cert_file_name,
                   key_file_name, java_sdk_dir, actions, ci_ret>>

\* (mutant) the handler lets the exception go on
NativeExceptReraises ==
    /\ ci_pc = "native_except"
    /\ actions' = actions
    /\ raising' = raising
    /\ ci_pc' = "native_remove_cert"
    /\ UNCHANGED <<run_vars, fn_vars, ci_env, tmp_files, cert_file_name,
                   key_file_name, java_sdk_dir, npm_status, ci_ret>>

\* lines 122-124: the bare except handles whatever the try raised
NativeExcept ==
    /\ ci_pc = "native_except"
    /\ actions' = Append(actions, "exit 1")
    /\ raising' = "none"
    /\ ci_pc' = "native_remove_cert"
    /\ UNCHANGED <<run_vars, fn_vars, ci_env, tmp_files, cert_file_name,
                   key_file_name, java_sdk_dir, npm_status, ci_ret>>

\* lines 126-127
NativeRemoveCert ==
    /\ ci_pc = "native_remove_cert"
    /\ tmp_files' = IF cert_file_name # "None" THEN tmp_files \ {cert_file_name}
                    ELSE tmp_files
    /\ ci_pc' = "native_remove_key"
    /\ UNCHANGED <<run_vars, fn_vars, ci_env, cert_file_name, key_file_name,
                   java_sdk_dir, actions, npm_status, raising, ci_ret>>

\* lines 128-129
NativeRemoveKey ==
    /\ ci_pc = "native_remove_key"
    /\ tmp_files' = IF key_file_name # "None" THEN tmp_files \ {key_file_name}
                    ELSE tmp_files
    /\ ci_pc' = "native_remove_java_sdk_dir"
    /\ UNCHANGED <<run_vars, fn_vars, ci_env, cert_file_name, key_file_name,
                   java_sdk_dir, actions, npm_status, raising, ci_ret>>

\* lines 130-131, after which the exception in flight, if any, leaves run
NativeRemoveJavaSdkDir ==
    /\ ci_pc = "native_remove_java_sdk_dir"
    /\ tmp_files' = IF java_sdk_dir # "None" THEN tmp_files \ {java_sdk_dir}
                    ELSE tmp_files
    /\ ci_pc' = IF raising = "none" THEN "native_return" ELSE "done"
    /\ ci_ret' = IF raising = "none" THEN ci_ret ELSE CiRaised
    /\ UNCHANGED <<run_vars, fn_vars, ci_env, cert_file_name, key_file_name,
                   java_sdk_dir, actions, npm_status, raising>>

\* line 133
NativeReturn ==
    /\ ci_pc = "native_return"
    /\ ci_ret' = CiReturned(actions)
    /\ ci_pc' = "done"
    /\ UNCHANGED <<run_vars, fn_vars, ci_env, tmp_files, cert_file_name,
                   key_file_name, java_sdk_dir, actions, npm_status, raising>>

NextNative ==
    \/ NativeBegin
    \/ NativePkcs12
    \/ NativeEchoServer
    \/ NativeSetCognito
    \/ NativeWriteEnvironmentScript
    \/ NativeWriteCert
    \/ NativeWriteKey
    \/ NativeSetPaths
    \/ NativeRunTests
    \/ NativeExcept
    \/ NativeRemoveCert
    \/ NativeRemoveKey
    \/ NativeRemoveJavaSdkDir
    \/ NativeReturn

SpecNative == InitNative /\ [][NextNative]_vars

\* either CI test action
InitCi == InitBrowser \/ InitNative

NextCi == NextBrowser \/ NextNative

SpecCi == InitCi /\ [][NextCi]_vars

(***************************************************************************)
(* What a --show-slots report says, stated over the whole report rather    *)
(* than by a scan: the slot a line belongs to is the nearest "Slot <ID>"   *)
(* line above it, its block the nearest singly-indented header between.    *)
(***************************************************************************)
IsSlotLine(L, k) == SlotLineMatch(L[k]) # None

IsHeaderLine(L, k) == ~IsSlotLine(L, k) /\ InfoBlockMatch(L[k]) # None

Highest(S) == IF S = {} THEN 0 ELSE CHOOSE x \in S : \A y \in S : y <= x

Lowest(S) == CHOOSE x \in S : \A y \in S : x <= y

\* the line of the slot that line k lies in (0: before any slot)
SlotIndex(L, k) == Highest({j \in 1..(k - 1) : IsSlotLine(L, j)})

\* the line of the block header that line k lies under (0: none in its slot)
HeaderIndex(L, k) ==
    Highest({h \in (SlotIndex(L, k) + 1)..(k - 1) : IsHeaderLine(L, h)})

\* line k is an "Initialized: yes" line of some block of some slot
IsInitializedLine(L, k) ==
    /\ InitializedYesMatch(L[k])
    /\ ~IsSlotLine(L, k)
    /\ ~IsHeaderLine(L, k)
    /\ SlotIndex(L, k) # 0
    /\ HeaderIndex(L, k) # 0

\* the name of the block line k lies under, and the id of its slot
BlockName(L, k) == InfoBlockMatch(L[HeaderIndex(L, k)])
SlotId(L, k) == SlotLineMatch(L[SlotIndex(L, k)])

\* line k is an "Initialized: yes" line of a Token info block
IsTokenInitializedLine(L, k) ==
    IsInitializedLine(L, k) /\ Contains(BlockName(L, k), TOKEN_INFO)

\* the slots (by line) whose Token info block holds "Initialized: yes"
InitializedSlots(L) ==
    {SlotIndex(L, k) : k \in {x \in 1..Len(L) : IsTokenInitializedLine(L, x)}}

\* the report the parser was called on
Report == SplitLines(fn_arg.output)

ParserReturned == fn_pc = "done" /\ ~ExecSofthsm2Util(fn_arg).raised

\* C7: whenever some slot's Token info block holds an "Initialized: yes"
\* line, _find_sofhsm2_token_slot returns the id of the first such slot in
\* listing order, wherever it stands among the slots.
C7_FirstInitializedSlot ==
    ParserReturned =>
        LET L == Report
            initialized == InitializedSlots(L)
        IN  initialized # {} => fn_ret = Ret(SlotLineMatch(L[Lowest(initialized)]))

\* two slots with different ids are initialized, and the one listed first,
\* slot 17, is the answer
C7_Witness ==
    /\ ParserReturned
    /\ fn_ret = Ret(<<"1", "7">>)
    /\ Cardinality(InitializedSlots(Report)) >= 2
    /\ \E j \in InitializedSlots(Report) : SlotLineMatch(Report[j]) = <<"0">>

\* the only initialized slot is not the first slot listed
C7_WitnessSingle ==
    /\ ParserReturned
    /\ Cardinality(InitializedSlots(Report)) = 1
    /\ ~fn_ret.raised
    /\ \E j \in 1..Len(Report) :
           IsSlotLine(Report, j) /\ j < Lowest(InitializedSlots(Report))

\* C8: the parser returns a slot only for an "Initialized: yes" line whose
\* nearest singly-indented header in that slot contains "Token info"; such a
\* line under any other header never makes its slot the answer.
C8_TokenInfoScoped ==
    (ParserReturned /\ ~fn_ret.raised) =>
        LET L == Report
        IN  \E k \in 1..Len(L) :
                /\ IsInitializedLine(L, k)
                /\ Contains(BlockName(L, k), TOKEN_INFO)
                /\ SlotId(L, k) = fn_ret.value
                /\ \A x \in 1..(k - 1) :
                       IsInitializedLine(L, x) =>
                           ~Contains(BlockName(L, x), TOKEN_INFO)

\* slot 0 holds "Initialized: yes" under Slot info only, and the parser
\* answers with the later slot 17
C8_Witness ==
    /\ ParserReturned
    /\ fn_ret = Ret(<<"1", "7">>)
    /\ LET L == Report
       IN  \E k \in 1..Len(L) :
               /\ IsInitializedLine(L, k)
               /\ ~Contains(BlockName(L, k), TOKEN_INFO)
               /\ SlotId(L, k) = <<"0">>

(***************************************************************************)
(* What a --version output says: its first run of three integer groups     *)
(* separated by dots, wherever in the text it stands.                      *)
(***************************************************************************)
\* a run digits "." digits "." digits starts at index i of text
VersionRunAt(text, i) ==
    LET d1 == RunEnd(text, i, Digits)
        d2 == RunEnd(text, d1 + 1, Digits)
    IN  /\ i <= Len(text) /\ text[i] \in Digits
        /\ d1 <= Len(text) /\ text[d1] = "."
        /\ d2 > d1 + 1
        /\ d2 < Len(text) /\ text[d2] = "."
        /\ text[d2 + 1] \in Digits

VersionRuns(text) == {i \in 1..Len(text) : VersionRunAt(text, i)}

\* the (major, minor, patch) of the run that starts at index i
VersionTripleAt(text, i) ==
    LET d1 == RunEnd(text, i, Digits)
        d2 == RunEnd(text, d1 + 1, Digits)
        d3 == RunEnd(text, d2 + 1, Digits)
    IN  <<DigitsToInt(SubSeq(text, i, d1 - 1)),
          DigitsToInt(SubSeq(text, d1 + 1, d2 - 1)),
          DigitsToInt(SubSeq(text, d2 + 1, d3 - 1))>>

\* C10: for any version output that contains three dot-separated integer
\* groups, exactly the version or embedded in longer text, with any number of
\* digits per group, _get_softhsm2_version returns the (major, minor, patch)
\* of the first such run.
C10_FirstVersionRun ==
    (fn_pc = "done" /\ ~ExecSofthsm2Util(fn_arg).raised) =>
        LET runs == VersionRuns(fn_arg.output)
        IN  runs # {} => fn_ret = Ret(VersionTripleAt(fn_arg.output, Lowest(runs)))

(***************************************************************************)
(* Properties of a provisioning run.                                       *)
(***************************************************************************)
Terminal == pc \in {"Disabled", "Failed", "Ready"}

FourVars == {LIB_VAR, PIN_VAR, TOKEN_LABEL_VAR, KEY_LABEL_VAR}

\* the variables published so far, in the shell or in test_env
Published == DOMAIN shell_env \cup DOMAIN test_env

Entered(stage) == \E i \in DOMAIN stages : stages[i] = stage

Invoked(op) == \E i \in DOMAIN cmds : cmds[i].op = op

Succeeded(op) == \E i \in DOMAIN cmds : cmds[i].op = op /\ cmds[i].ok

\* the report of this run's --show-slots, when the command returned
RunReport == SplitLines(slots_result.output)

SlotsReturned == slots_result # None /\ ~ExecSofthsm2Util(slots_result).raised

\* C1: when run has returned or raised, the four published variables are
\* either all set (in the shell and in test_env) or none of them is set.
C1_AllOrNone ==
    Terminal =>
        \/ FourVars \cap Published = {}
        \/ FourVars \subseteq DOMAIN shell_env /\ FourVars \subseteq DOMAIN test_env

C1_Witness ==
    /\ pc = "Ready"
    /\ FourVars \subseteq DOMAIN shell_env
    /\ FourVars \subseteq DOMAIN test_env

\* C2 as stated: no variable at all is published before the key import
\* has succeeded.
C2_NothingBeforeImport == Published # {} => Succeeded("--import")

\* C2 as amended: none of the four PKCS#11 test variables is published
\* before the key import has succeeded; the one variable published earlier
\* is SOFTHSM2_CONF, set once the library is located.
C2_FourVarsAfterImport ==
    /\ FourVars \cap Published # {} => Succeeded("--import")
    /\ Published \subseteq FourVars \cup {CONF_VAR}
    /\ CONF_VAR \in Published => softhsm2_lib # "None" /\ Entered("LocateLibrary")

\* the first of the four variables is set, the import having succeeded
C2_Witness ==
    /\ pc = "PublishPin"
    /\ LIB_VAR \in DOMAIN shell_env
    /\ Succeeded("--import")

\* the version command failed, printed the usage banner, or printed text
\* the version pattern does not match
VersionCheckRaised ==
    /\ version_result # None
    /\ \/ version_result.returncode # 0
       \/ Contains(version_result.output, USAGE)
       \/ VersionMatch(version_result.output) = None
       \/ VersionMatch(version_result.output)[1] = <<"+">>

\* C3 as stated: a run that ends before InitializeToken, the version command
\* failing or answering unparseably included, ends in Disabled.
C3_EarlyFailureDisables ==
    (Terminal /\ ~Entered("InitializeToken")) => pc = "Disabled"

\* C3 as amended: a run that ends before InitializeToken never invokes
\* --init-token; it ends in Disabled when the platform is ineligible, the
\* install failed, the library was not found or the parsed version is below
\* (2,2,0), and in Failed when the version command itself failed, printed the
\* usage banner or printed text the version pattern does not match.
C3_EarlyFailure ==
    (Terminal /\ ~Entered("InitializeToken")) =>
        /\ ~Invoked("--init-token")
        /\ pc = IF VersionCheckRaised THEN "Failed" ELSE "Disabled"
        /\ pc = "Disabled" =>
               \/ UnsupportedPlatform(platform)
               \/ UnsupportedArch(platform, machine)
               \/ install_result = "raised"
               \/ Entered("LocateLibrary") /\ softhsm2_lib = "None"
               \/ /\ version_result # None
                  /\ TupleLess(GetSofthsm2Version(version_result).value, MinVersion)

\* the version command printed the usage banner and run raised
C3_Witness ==
    /\ pc = "Failed"
    /\ ~Entered("InitializeToken")
    /\ version_result # None
    /\ version_result.returncode = 0
    /\ Contains(version_result.output, USAGE)

\* a stage from InitializeToken on has failed
LateFailure ==
    \/ \E i \in DOMAIN cmds :
           cmds[i].op \in {"--init-token", "--show-slots", "--import"} /\ ~cmds[i].ok
    \/ SlotsReturned /\ InitializedSlots(RunReport) = {}
    \/ Entered("ImportKey") /\ key_path = "None"

\* C4: a failure of token initialisation, slot resolution, secret retrieval
\* or key import ends the run in Failed with none of the four variables
\* published, and a run that entered InitializeToken ends in Failed or Ready.
C4_LateFailureFails ==
    /\ LateFailure => pc = "Failed" /\ FourVars \cap Published = {}
    /\ (Terminal /\ Entered("InitializeToken")) => pc \in {"Failed", "Ready"}
    /\ (pc = "Failed" /\ Entered("InitializeToken")) => LateFailure

\* the key import failed
C4_Witness ==
    /\ pc = "Failed"
    /\ \E i \in DOMAIN cmds : cmds[i].op = "--import" /\ ~cmds[i].ok
    /\ FourVars \cap Published = {}

StageOrder ==
    <<"CheckEligibility", "InstallEmulator", "LocateLibrary", "CheckVersion",
      "InitializeToken", "ResolveSlot", "ImportKey", "PublishEnvironment">>

\* C5: stages are entered in the fixed order, each only after every earlier
\* one succeeded, and Ready is reached only with all eight entered.
C5_StagesInOrder ==
    /\ Len(stages) <= Len(StageOrder)
    /\ stages = SubSeq(StageOrder, 1, Len(stages))
    /\ \A i \in 1..(Len(cmds) - 1) : cmds[i].ok
    /\ Entered("InstallEmulator") =>
           ~UnsupportedPlatform(platform) /\ ~UnsupportedArch(platform, machine)
    /\ Entered("LocateLibrary") => install_result = "ok"
    /\ Entered("CheckVersion") => softhsm2_lib # "None"
    /\ Entered("InitializeToken") =>
           /\ ~VersionCheckRaised
           /\ ~TupleLess(GetSofthsm2Version(version_result).value, MinVersion)
    /\ Entered("ResolveSlot") => Succeeded("--init-token")
    /\ Entered("ImportKey") => Succeeded("--show-slots") /\ token_slot # None
    /\ Entered("PublishEnvironment") => Succeeded("--import") /\ key_path # "None"
    /\ pc = "Ready" => stages = StageOrder /\ FourVars \subseteq Published
    /\ FourVars \subseteq Published => pc = "Ready"

C5_Witness == pc = "Ready" /\ stages = StageOrder

\* C6: the key import is invoked only after the slot parser has returned a
\* slot for this run's --show-slots report, and its --slot argument is that
\* slot id.
C6_ImportUsesResolvedSlot ==
    \A i \in DOMAIN cmds :
        cmds[i].op = "--import" =>
            /\ \E j \in 1..(i - 1) : cmds[j].op = "--show-slots" /\ cmds[j].ok
            /\ SlotsReturned
            /\ InitializedSlots(RunReport) # {}
            /\ ~FindSofhsm2TokenSlot(slots_result).raised
            /\ cmds[i].slot = FindSofhsm2TokenSlot(slots_result).value

\* the import was given slot 17, which the parser had found
C6_Witness ==
    \E i \in DOMAIN cmds : cmds[i].op = "--import" /\ cmds[i].slot = <<"1", "7">>

\* C9: when no slot's Token info block of the report holds "Initialized:
\* yes" (an empty report and one without Slot lines included), the parser
\* raises and the run ends in Failed, no import attempted and none of the
\* four variables published.
C9_NoInitializedSlotFails ==
    (SlotsReturned /\ InitializedSlots(RunReport) = {}) =>
        /\ FindSofhsm2TokenSlot(slots_result).raised
        /\ pc = "Failed"
        /\ token_slot = None
        /\ ~Invoked("--import")
        /\ FourVars \cap Published = {}

\* the report lists a slot whose only "Initialized: yes" is outside Token info
C9_Witness ==
    /\ pc = "Failed"
    /\ SlotsReturned
    /\ InitializedSlots(RunReport) = {}
    /\ \E k \in 1..Len(RunReport) : IsInitializedLine(RunReport, k)

\* the report is empty
C9_WitnessEmpty == pc = "Failed" /\ SlotsReturned /\ slots_result.output = << >>

(***************************************************************************)
(* The minimum-version gate.                                               *)
(***************************************************************************)
\* a >= b in lexicographic order: the triples are equal, or a is the greater
\* at the first component where they differ
LexGeq(a, b) ==
    \/ a = b
    \/ LET i == Lowest({k \in 1..3 : a[k] # b[k]}) IN a[i] > b[i]

\* the version command of this run answered and its output was parsed
GateReached == version_result # None /\ ~GetSofthsm2Version(version_result).raised

ParsedVersion == GetSofthsm2Version(version_result).value

\* C11 as stated: the gate passes exactly when the parsed triple is >= (2,2,0)
\* in lexicographic order, and a failing gate ends the run in Disabled with
\* no --init-token invoked and the published environment of a run in which
\* the emulator was not installed, which is the empty one.
C11_GateAsNotInstalled ==
    GateReached =>
        /\ LexGeq(ParsedVersion, <<2, 2, 0>>) <=> pc # "Disabled"
        /\ pc = "Disabled" =>
               /\ ~Invoked("--init-token")
               /\ shell_env = NoVars
               /\ test_env = NoVars

\* C11 as amended: the gate passes exactly when the parsed triple is >=
\* (2,2,0) in lexicographic order; a failing gate ends the run in Disabled
\* with no --init-token invoked and none of the four test variables
\* published, but, unlike a run without the emulator, with SOFTHSM2_CONF
\* published, the token directory created and the config file written.
C11_MinimumVersionGate ==
    /\ GateReached =>
           /\ LexGeq(ParsedVersion, <<2, 2, 0>>) <=> pc # "Disabled"
           /\ ParsedVersion = <<2, 2, 0>> => pc # "Disabled"
           /\ ParsedVersion = <<2, 1, 0>> => pc = "Disabled"
           /\ pc = "Disabled" =>
                  /\ ~Invoked("--init-token")
                  /\ shell_env = SetVar(NoVars, CONF_VAR, conf_path)
                  /\ test_env = SetVar(NoVars, CONF_VAR, conf_path)
                  /\ token_dir.exists
                  /\ conf_file # "None"
    /\ (pc = "Disabled" /\ version_result = None) =>
           shell_env = NoVars /\ test_env = NoVars

\* version 2.1.0 was refused by the gate
C11_Witness ==
    /\ GateReached
    /\ ParsedVersion = <<2, 1, 0>>
    /\ pc = "Disabled"
    /\ CONF_VAR \in Published

(***************************************************************************)
(* The eligibility gate.                                                   *)
(***************************************************************************)
\* the machine names of ARM CPUs: 32-bit (arm, armv6l, armv7l, ...) and
\* 64-bit (aarch64, arm64, armv8l, ...)
ArmMachine(m) ==
    \/ StartsWithAt(m, 1, <<"a", "r", "m">>)
    \/ StartsWithAt(m, 1, <<"a", "a", "r", "c", "h", "6", "4">>)

\* run returned at the gate, before any installation attempt
Refused == pc = "Disabled" /\ ~Entered("InstallEmulator") /\ install_result = "none"

\* C12: the eligibility gate refuses provisioning, before any installation
\* attempt, on darwin, on win32 and on every ARM machine, 32-bit and 64-bit
\* alike, and proceeds to the installation on every other combination.
C12_EligibilityGate ==
    Entered("CheckEligibility") =>
        ((platform \in {DARWIN, WIN32} \/ ArmMachine(machine)) <=> Refused)

(***************************************************************************)
(* A failing installer.                                                    *)
(***************************************************************************)
\* C13: when the installer failed with an exception, run has returned
\* normally (Disabled) with no environment variable published, no
\* softhsm2-util command executed and no file or directory created.
C13_InstallFailureDisables ==
    install_result = "raised" =>
        /\ pc = "Disabled"
        /\ shell_env = NoVars
        /\ test_env = NoVars
        /\ cmds = << >>
        /\ fs_ops = << >>
        /\ key_path = "None"
        /\ softhsm2_lib = "None"
        /\ stages = <<"CheckEligibility", "InstallEmulator">>

C13_Witness == install_result = "raised" /\ pc = "Disabled" /\ Published = {}

(***************************************************************************)
(* The values published by a run in which every stage succeeded.           *)
(***************************************************************************)
\* the invocations of softhsm2-util with the given action
Invocations(op) == {cmds[i] : i \in {x \in DOMAIN cmds : cmds[x].op = op}}

\* C14: a run that ends in Ready has published all four variables, each with
\* the value used earlier in the run (the located library path, the pin of
\* --init-token and --import, the label of --init-token, the label of
\* --import), the same in the shell environment and in test_env.
C14_PublishedValues ==
    pc = "Ready" =>
        /\ FourVars \subseteq DOMAIN shell_env
        /\ FourVars \subseteq DOMAIN test_env
        /\ \A v \in FourVars : shell_env[v] = test_env[v]
        /\ shell_env[LIB_VAR] = softhsm2_lib
        /\ softhsm2_lib \in {f.path : f \in LibFiles}
        /\ Invocations("--init-token") # {}
        /\ Invocations("--import") # {}
        /\ \A c \in Invocations("--init-token") :
               /\ c.pin = shell_env[PIN_VAR]
               /\ c.label = shell_env[TOKEN_LABEL_VAR]
        /\ \A c \in Invocations("--import") :
               /\ c.pin = shell_env[PIN_VAR]
               /\ c.label = shell_env[KEY_LABEL_VAR]

\* a run ended in Ready with the library found under lib64
C14_Witness ==
    /\ pc = "Ready"
    /\ shell_env[LIB_VAR] = "/usr/lib64/libsofthsm2.so"
    /\ test_env[KEY_LABEL_VAR] = "my-key"

(***************************************************************************)
(* Version output that holds no version.                                   *)
(***************************************************************************)
\* C15: when the output of the version command holds no run of three
\* dot-separated integer groups, _get_softhsm2_version raises, and the error
\* leaves run (line 57 has no handler).
C15_NoVersionRaises ==
    (fn_pc = "done" /\ ~ExecSofthsm2Util(fn_arg).raised) =>
        (VersionRuns(fn_arg.output) = {} => fn_ret.raised)

(***************************************************************************)
(* The usage banner.                                                       *)
(***************************************************************************)
\* the stage in which run invokes softhsm2-util with the given action
StageOf(op) ==
    CASE op = "--version" -> "CheckVersion"
      [] op = "--init-token" -> "InitializeToken"
      [] op = "--show-slots" -> "ResolveSlot"
      [] op = "--import" -> "ImportKey"

HasUsageBanner(output) ==
    \E i \in 1..(Len(output) - Len(USAGE) + 1) :
        SubSeq(output, i, i + Len(USAGE) - 1) = USAGE

\* C16: an invocation of softhsm2-util whose output holds the usage banner
\* has raised, exit code 0 included: run has ended in Failed, that invocation
\* is its last and no stage was entered after the invocation's own.
C16_UsageBannerIsFatal ==
    \A i \in DOMAIN cmds :
        HasUsageBanner(cmds[i].result.output) =>
            /\ ~cmds[i].ok
            /\ pc = "Failed"
            /\ i = Len(cmds)
            /\ stages[Len(stages)] = StageOf(cmds[i].op)
            /\ FourVars \cap Published = {}

\* --init-token exited with code 0 and printed the usage banner
C16_Witness ==
    /\ pc = "Failed"
    /\ \E i \in DOMAIN cmds :
           /\ cmds[i].op = "--init-token"
           /\ cmds[i].result.returncode = 0
           /\ HasUsageBanner(cmds[i].result.output)

(***************************************************************************)
(* The library locator.                                                    *)
(***************************************************************************)
\* the files named exactly libsofthsm2.so under a root <base>/<lib_dir>,
\* <base> one of /usr/local, /usr, /
NamedExactlyUnder(files, lib_dir) ==
    {f \in files : /\ f.name = "libsofthsm2.so"
                   /\ f.lib_dir = lib_dir
                   /\ f.base_dir \in {"/usr/local", "/usr", "/"}}

\* C17: the locator returns a file named exactly libsofthsm2.so under a
\* lib64 root whenever one exists, even if a lib root holds one too; a file
\* under a lib root only when no lib64 root holds one; and not-found,
\* without raising, when no root holds one, which ends the run in Disabled.
C17_Lib64Preferred ==
    fn_pc = "done" =>
        LET in64 == NamedExactlyUnder(fn_arg, "lib64")
            inlib == NamedExactlyUnder(fn_arg, "lib")
        IN  /\ ~fn_ret.raised
            /\ in64 # {} => fn_ret.value \in {f.path : f \in in64}
            /\ (in64 = {} /\ inlib # {}) => fn_ret.value \in {f.path : f \in inlib}
            /\ (in64 = {} /\ inlib = {}) => fn_ret.value = "None"
            /\ fn_ret.value = "None" <=> pc = "Disabled"
            /\ fn_ret.value # "None" <=> pc = "Configure"

\* both a lib64 root and a lib root hold the library, and the one under
\* lib64 is returned although /usr/local/lib is an earlier base directory
C17_Witness ==
    /\ fn_pc = "done"
    /\ fn_ret = Ret("/usr/lib64/libsofthsm2.so")
    /\ \E f \in fn_arg : f.path = "/usr/local/lib/libsofthsm2.so"

\* only near-matches exist, and the run is disabled
C17_WitnessNotFound ==
    /\ fn_pc = "done"
    /\ fn_ret = Ret("None")
    /\ fn_arg # {}
    /\ pc = "Disabled"

(***************************************************************************)
(* The token directory.                                                    *)
(***************************************************************************)
\* what a token directory of before the run may hold
EarlierTokens == UNION {left.dir.entries : left \in LeftBehind}

\* C18: whatever the token directory held before the run, when --init-token
\* is invoked the directory exists and holds nothing from before the run, and
\* the config file names it as directories.tokendir; once the command has
\* run the directory holds at most the token of this run.
C18_CleanTokenDir ==
    /\ pc = "InitializeToken" =>
           /\ token_dir.exists
           /\ token_dir.entries \cap EarlierTokens = {}
           /\ token_dir.entries = {}
           /\ conf_file = "directories.tokendir = /tmp/softhsm2/tokens\n"
           /\ \E i \in DOMAIN fs_ops : fs_ops[i] = FsOp("mkdir", token_dir_path)
    /\ Invoked("--init-token") =>
           /\ token_dir.exists
           /\ token_dir.entries \cap EarlierTokens = {}
           /\ conf_file = "directories.tokendir = /tmp/softhsm2/tokens\n"

\* --init-token is about to be invoked in a run that found a token
\* directory and removed it
C18_Witness ==
    /\ pc = "InitializeToken"
    /\ fs_ops[1] = FsOp("rm", token_dir_path)
    /\ token_dir = EmptyDir

(***************************************************************************)
(* Block membership does not cross a "Slot <ID>" line.                     *)
(***************************************************************************)
\* line k is an "Initialized: yes" line with no header of its own slot above
\* it, while the slot before ended inside a Token info block
LeakLine(L, k) ==
    /\ InitializedYesMatch(L[k])
    /\ SlotIndex(L, k) # 0
    /\ HeaderIndex(L, k) = 0
    /\ LET before == HeaderIndex(L, SlotIndex(L, k))
       IN  before # 0 /\ Contains(InfoBlockMatch(L[before]), TOKEN_INFO)

\* the first "Initialized: yes" line under a Token info header of its slot
MatchingLine(L) == Lowest({k \in 1..Len(L) : IsTokenInitializedLine(L, k)})

\* C19: a "Slot <ID>" line resets the active block: an "Initialized: yes"
\* line after a new Slot line and before any header of that slot does not
\* match, even if the slot before ended in a Token info block, and an id the
\* scanner returns is the id of the nearest Slot line above the matching line.
C19_SlotLineResetsBlock ==
    ParserReturned =>
        LET L == Report
            matching == {k \in 1..Len(L) : IsTokenInitializedLine(L, k)}
        IN  /\ (\A k \in 1..Len(L) :
                    InitializedYesMatch(L[k]) => HeaderIndex(L, k) = 0)
                   => fn_ret.raised
            /\ ~fn_ret.raised =>
                   /\ matching # {}
                   /\ fn_ret.value =
                          SlotLineMatch(L[Highest({j \in 1..(MatchingLine(L) - 1) :
                                                      IsSlotLine(L, j)})])

\* slot 0 ended inside Token info, the "Initialized: yes" line right after
\* "Slot 17" did not match, and the scan found nothing
C19_Witness ==
    /\ ParserReturned
    /\ fn_ret.raised
    /\ \E k \in 1..Len(Report) :
           LeakLine(Report, k) /\ SlotId(Report, k) = <<"1", "7">>

\* such a line was passed over and a later slot is the answer
C19_WitnessReturned ==
    /\ ParserReturned
    /\ ~fn_ret.raised
    /\ \E k \in 1..Len(Report) :
           LeakLine(Report, k) /\ SlotId(Report, k) # fn_ret.value

(***************************************************************************)
(* The browser CI test action.                                             *)
(***************************************************************************)
\* C20: in the browser CI test action, run returns a script whose actions
\* contain "exit 1" whenever npm run test:browser:ci exits with a nonzero
\* status, and a script with no actions when it exits with status 0.
C20_BrowserExitStatus ==
    (ci_pc = "done" /\ npm_status # None) =>
        /\ ~ci_ret.raised
        /\ npm_status[1] # 0 =>
               \E i \in DOMAIN ci_ret.actions : ci_ret.actions[i] = "exit 1"
        /\ npm_status[1] = 0 => ci_ret.actions = << >>

(***************************************************************************)
(* The native CI test action.                                              *)
(***************************************************************************)
\* run is inside its try statement (lines 106-131), handler and finally
\* included
InGuardedSection ==
    ci_pc \in {"native_echo_server", "native_cognito", "native_env_script",
               "native_write_cert", "native_write_key", "native_set_paths",
               "native_run_tests", "native_except", "native_remove_cert",
               "native_remove_key", "native_remove_java_sdk_dir"}

\* run is past the handler of its try statement
PastHandler ==
    ci_pc \in {"native_remove_cert", "native_remove_key",
               "native_remove_java_sdk_dir", "native_return"}

\* the echo server was set up
EchoServerUp == ECHO_HOST_VAR \in DOMAIN ci_env

\* the test command ran and succeeded
TestsPassed == npm_status = <<0>>

\* run ended on the PKCS12 copy, before its try statement
EndedBeforeGuard == ci_pc = "done" /\ ci_ret.raised /\ java_sdk_dir = "None"

\* C21: in the native CI test action, a failure inside the try statement
\* (secret retrieval, environment-script parsing with a line that is not an
\* export line, writing the certificate or the key file, the test command)
\* always reaches the handler, and run then returns a script whose actions
\* contain "exit 1" instead of raising; a failure to set up the echo server
\* alone does not, and a fully successful run returns a script with no
\* actions.
C21_NativeNeverRaises ==
    /\ (InGuardedSection /\ raising # "none") => ci_pc = "native_except"
    /\ PastHandler =>
           /\ raising = "none"
           /\ actions = IF TestsPassed THEN << >> ELSE <<"exit 1">>
    /\ (ci_pc = "done" /\ ~EndedBeforeGuard) =>
           /\ ~ci_ret.raised
           /\ ~TestsPassed => \E i \in DOMAIN ci_ret.actions : ci_ret.actions[i] = "exit 1"
           /\ TestsPassed => ci_ret.actions = << >>
           /\ (TestsPassed /\ ~EchoServerUp) => ci_ret.actions = << >>
    /\ EndedBeforeGuard => raising = "RuntimeError"

\* a script line that is not an export line raised AttributeError, and the
\* handler is about to turn it into "exit 1"
C21_WitnessNotExportLine ==
    /\ ci_pc = "native_except"
    /\ raising = "AttributeError"

\* run returned a script with "exit 1" after the test command failed
C21_Witness ==
    /\ ci_pc = "done"
    /\ npm_status = <<1>>
    /\ ci_ret = CiReturned(<<"exit 1">>)

\* the echo server could not be set up, and run returned an empty script
C21_WitnessNoEchoServer ==
    /\ ci_pc = "done"
    /\ ~EchoServerUp
    /\ TestsPassed
    /\ ci_ret = CiReturned(<< >>)

(***************************************************************************)
(* The temporary files of the CI test actions.                             *)
(***************************************************************************)
\* the temporary files made to hold the certificate and the private key
SecretFiles == {CertFile, KeyFile}

\* C22: in both CI test actions, every temporary file made for the
\* certificate or the private key during run has been removed when run has
\* returned or raised, whichever step failed.
C22_SecretFilesRemoved ==
    ci_pc = "done" => tmp_files \cap SecretFiles = {}

=============================================================================
